---- MODULE Spec2Model ----
(***************************************************************************)
(* A model of the bpftop metric crates:                                    *)
(*   bpf-metrics   BpfMetrics, a registry of per-subject metric            *)
(*                 collections (programs, maps, links) with                *)
(*                 register / collect / export,                            *)
(*   ebpf-metrics  OpenMetrics, the three counter families run_time,       *)
(*                 execution and uptime with record / scrape,              *)
(*   bpftop        deserialize, the nom parser of the exposition text.     *)
(*                                                                         *)
(* Text is a sequence of tokens.  A token is a word of the text that no    *)
(* parser tag splits: an identifier piece between underscores, one         *)
(* punctuation character, one decimal digit, or an opaque run of text      *)
(* (a help text, a label value).  Matching a tag is matching its tokens.   *)
(***************************************************************************)
EXTENDS Integers, Sequences, FiniteSets, TLC

VARIABLES
    crate,      \* what the process drives: "bpf", "ebpf-debug", "ebpf-release",
                \* "collection" (a MetricCollection alone), "decode" and "payload"
                \* (deserialize alone), "handlers" (request handlers on one BpfMetrics)
    registry,   \* Registry: the registered family descriptors, in registration order
    metrics,    \* BpfMetrics.metrics: the collections, in registration order
    families,   \* the Family objects: family id -> (label set -> value)
    last,       \* the most recent call: its name, arguments and what it returned
    decoded,    \* what deserialize returned for the buffer of the last call, or NoResult
    seen,       \* per collection: label sets the most recent collect_metrics built
    cycle,      \* per collection: label sets built since the last export that cleared
    phase,      \* "new", "collected" (a collect since the last clearing export), "exported"
    orig,       \* the first payload handed to deserialize, what it returned, the calls so far
    handlers    \* per request handler on a shared BpfMetrics: where it is in its call

vars == <<crate, registry, metrics, families, last, decoded, seen, cycle, phase, orig,
          handlers>>

----------------------------------------------------------------------------
(* Bounds of the model *)

\* register_*_metrics calls on one BpfMetrics
MaxRegs == 2
\* elements of one listing returned by the data source
MaxListing == 2

----------------------------------------------------------------------------
(* Small helpers *)

RECURSIVE Flatten(_)
Flatten(ss) == IF ss = <<>> THEN <<>> ELSE Head(ss) \o Flatten(Tail(ss))

RECURSIVE SetToSeqs(_)
\* every ordering of a finite set: the iteration orders of a HashMap
SetToSeqs(S) ==
    IF S = {} THEN {<<>>}
    ELSE UNION {{<<x>> \o r : r \in SetToSeqs(S \ {x})} : x \in S}

SeqsUpTo(S, n) == UNION {[1..k -> S] : k \in 0..n}

EmptyMap == [x \in {} |-> 0]

Put(f, k, v) == [x \in DOMAIN f \cup {k} |-> IF x = k THEN v ELSE f[x]]

----------------------------------------------------------------------------
(* The exposition text that prometheus_client's text::encode writes *)

DigitTok == <<"0", "1", "2", "3", "4", "5", "6", "7", "8", "9">>

RECURSIVE Digits(_)
\* an unsigned integer formatted in decimal, one token per digit
Digits(n) ==
    IF n < 10 THEN <<DigitTok[n + 1]>>
    ELSE Digits(n \div 10) \o <<DigitTok[(n % 10) + 1]>>

\* a string value as text: the empty string is no text at all
Str(s) == IF s = "" THEN <<>> ELSE <<s>>

\* ProgLabels: prog_type, id, tag, name, in field order
ProgLabelPairs(l) ==
    << <<(<<"prog", "_", "type">>), Str(l.prog_type)>>,
       <<(<<"id">>), Digits(l.id)>>,
       <<(<<"tag">>), Digits(l.tag)>>,
       <<(<<"name">>), Str(l.name)>> >>

\* MapLabels: map_type, id, name, in field order
MapLabelPairs(l) ==
    << <<(<<"map", "_", "type">>), Str(l.map_type)>>,
       <<(<<"id">>), Digits(l.id)>>,
       <<(<<"name">>), Str(l.name)>> >>

\* ebpf-metrics Labels: id, program_type, name, in field order
LabelPairs(l) ==
    << <<(<<"id">>), Digits(l.id)>>,
       <<(<<"program", "_", "type">>), Str(l.program_type)>>,
       <<(<<"name">>), Str(l.name)>> >>

LabelPairsOf(subject, l) ==
    CASE subject = "prog" -> ProgLabelPairs(l)
      [] subject = "map"  -> MapLabelPairs(l)
      [] OTHER            -> LabelPairs(l)

RECURSIVE EncodePairs(_)
EncodePairs(ps) ==
    IF ps = <<>> THEN <<>>
    ELSE Head(ps)[1] \o <<"=", "\"">> \o Head(ps)[2] \o <<"\"">>
         \o (IF Len(ps) > 1 THEN <<",">> ELSE <<>>)
         \o EncodePairs(Tail(ps))

\* derive(EncodeLabelSet): {key="value",key="value",...}
EncodeLabelSet(subject, l) ==
    <<"{">> \o EncodePairs(LabelPairsOf(subject, l)) \o <<"}">>

\* the name a family is exposed under: prefixes, name and unit joined by "_"
FullName(d) == d.prefix \o <<"_">> \o d.name \o <<"_">> \o d.unit

EncodeSample(d, l, v) ==
    FullName(d)
    \o (IF d.typ = "counter" THEN <<"_", "total">> ELSE <<>>)
    \o EncodeLabelSet(d.subject, l)
    \o <<" ">> \o Digits(v) \o <<"\n">>

RECURSIVE EncodeSamples(_, _, _)
EncodeSamples(d, fam, order) ==
    IF order = <<>> THEN <<>>
    ELSE EncodeSample(d, Head(order), fam[Head(order)])
         \o EncodeSamples(d, fam, Tail(order))

\* a metadata line of a family: # HELP name text, # TYPE name type or
\* # UNIT name unit
MetadataLineOf(d, which) ==
    <<"#", " ", which, " ">> \o FullName(d) \o <<" ">>
    \o (CASE which = "HELP" -> <<d.help>>
           [] which = "TYPE" -> <<d.typ>>
           [] OTHER -> d.unit)
    \o <<"\n">>

\* one family: HELP, TYPE and UNIT lines, then one line per label set
EncodeFamily(d, fam, order) ==
    MetadataLineOf(d, "HELP") \o MetadataLineOf(d, "TYPE") \o MetadataLineOf(d, "UNIT")
    \o EncodeSamples(d, fam, order)

EOFLine == <<"#", " ", "EOF", "\n">>

RECURSIVE EncodeFrom(_, _, _)
\* the texts text::encode can write for the families reg[i..]: one per
\* iteration order of each family's hash map
EncodeFrom(reg, fams, i) ==
    IF i > Len(reg) THEN {EOFLine}
    ELSE {EncodeFamily(reg[i], fams[reg[i].fam], o) \o rest :
            o \in SetToSeqs(DOMAIN fams[reg[i].fam]),
            rest \in EncodeFrom(reg, fams, i + 1)}

Encode(reg, fams) == EncodeFrom(reg, fams, 1)

\* the samples a payload of this registry state carries
SamplesOf(reg, fams) ==
    UNION {{[fam |-> reg[i].fam, labels |-> l] : l \in DOMAIN fams[reg[i].fam]} :
             i \in 1..Len(reg)}

----------------------------------------------------------------------------
(* bpf-metrics: the metric tables of the subject kinds *)

ProgMetric ==
    {"SizeJitted", "SizeTranslated", "Uptime", "RunTime", "RunCount",
     "VerifiedInstructions", "MemoryLocked"}

MapMetric == {"KeySize", "ValueSize", "MaxEntries"}

\* LinkMetric is an enum with no variant
LinkMetric == {}

Bytes == <<"bytes">>
Nanoseconds == <<"nanoseconds">>
Count == <<"count">>

\* the match of init_with_metrics for programs: type, name, help, unit
ProgMetricTable(metric) ==
    CASE metric = "SizeJitted" ->
            [typ |-> "gauge", name |-> <<"size", "_", "jitted">>,
             help |-> "Size of program's JIT-compiled machine code", unit |-> Bytes]
      [] metric = "SizeTranslated" ->
            [typ |-> "gauge", name |-> <<"size", "_", "translated">>,
             help |-> "Size of program's translated bytecode", unit |-> Bytes]
      [] metric = "Uptime" ->
            [typ |-> "counter", name |-> <<"uptime">>,
             help |-> "Duration program has been loaded", unit |-> Nanoseconds]
      [] metric = "RunTime" ->
            [typ |-> "counter", name |-> <<"run", "_", "time">>,
             help |-> "Accumulated duration the program has actively ran",
             unit |-> Nanoseconds]
      [] metric = "RunCount" ->
            [typ |-> "counter", name |-> <<"execution">>,
             help |-> "Accumulated execution count of the program", unit |-> Count]
      [] metric = "VerifiedInstructions" ->
            [typ |-> "gauge", name |-> <<"verified", "_", "instruction">>,
             help |-> "Number of verified instructions in the program", unit |-> Count]
      [] metric = "MemoryLocked" ->
            [typ |-> "gauge", name |-> <<"memory", "_", "locked">>,
             help |-> "Amount of memory allocated and locked for the program",
             unit |-> Bytes]

\* the match of init_with_metrics for maps
MapMetricTable(metric) ==
    CASE metric = "KeySize" ->
            [typ |-> "gauge", name |-> <<"key", "_", "size">>,
             help |-> "Size of map key", unit |-> Bytes]
      [] metric = "ValueSize" ->
            [typ |-> "gauge", name |-> <<"value", "_", "size">>,
             help |-> "Size of map value", unit |-> Bytes]
      [] metric = "MaxEntries" ->
            [typ |-> "gauge", name |-> <<"max", "_", "entries">>,
             help |-> "Maximum entries map can hold", unit |-> Count]

MetricTable(subject, metric) ==
    IF subject = "prog" THEN ProgMetricTable(metric) ELSE MapMetricTable(metric)

----------------------------------------------------------------------------
(* bpf-metrics: MetricCollection *)

\* MetricCollection::default()
DefaultCollection(subject) ==
    [subject |-> subject, counters |-> EmptyMap, gauges |-> EmptyMap]

\* A registration works on the registry, the family objects and the
\* collection being built: st = [registry, families, col].
NewFamily(st) == Len(st.registry) + 1

Descriptor(st, metric, typ) ==
    LET t == MetricTable(st.col.subject, metric) IN
    [prefix |-> <<"bpf", "_", st.col.subject>>, name |-> t.name, unit |-> t.unit,
     help |-> t.help, typ |-> typ, subject |-> st.col.subject,
     kind |-> metric, fam |-> NewFamily(st)]

\* register_counter: a fresh family, registered, then inserted under the
\* metric (HashMap::insert replaces the family an earlier call put there)
register_counter(st, metric) ==
    [registry |-> Append(st.registry, Descriptor(st, metric, "counter")),
     families |-> Put(st.families, NewFamily(st), EmptyMap),
     col      |-> [st.col EXCEPT !.counters = Put(@, metric, NewFamily(st))]]

\* register_gauge
register_gauge(st, metric) ==
    [registry |-> Append(st.registry, Descriptor(st, metric, "gauge")),
     families |-> Put(st.families, NewFamily(st), EmptyMap),
     col      |-> [st.col EXCEPT !.gauges = Put(@, metric, NewFamily(st))]]

RECURSIVE RegisterEach(_, _)
RegisterEach(st, opts) ==
    IF opts = <<>> THEN st
    ELSE RegisterEach(
            IF MetricTable(st.col.subject, Head(opts)).typ = "counter"
            THEN register_counter(st, Head(opts))
            ELSE register_gauge(st, Head(opts)),
            Tail(opts))

\* init_with_metrics: a sub-registry with the subject's prefix and one
\* family per metric option, in the order given
init_with_metrics(reg, fams, subject, opts) ==
    RegisterEach([registry |-> reg, families |-> fams,
                  col |-> DefaultCollection(subject)], opts)

\* update_counter that makes a family for a metric that has none
update_counter_or_insert(col, fams, metric, labels, value) ==
    IF metric \in DOMAIN col.counters
    THEN [fams EXCEPT ![col.counters[metric]] = Put(@, labels, value)]
    ELSE Put(fams, Cardinality(DOMAIN fams) + 1, Put(EmptyMap, labels, value))

\* update_counter: store the value, if the metric has a counter family
update_counter(col, fams, metric, labels, value) ==
    IF metric \in DOMAIN col.counters
    THEN [fams EXCEPT ![col.counters[metric]] = Put(@, labels, value)]
    ELSE fams

\* update_gauge that adds the value to the one the labels have
update_gauge_adding(col, fams, metric, labels, value) ==
    IF metric \in DOMAIN col.gauges
    THEN [fams EXCEPT ![col.gauges[metric]] =
            Put(@, labels, IF labels \in DOMAIN @ THEN @[labels] + value ELSE value)]
    ELSE fams

\* update_gauge: set the value, if the metric has a gauge family
update_gauge(col, fams, metric, labels, value) ==
    IF metric \in DOMAIN col.gauges
    THEN [fams EXCEPT ![col.gauges[metric]] = Put(@, labels, value)]
    ELSE fams

FamiliesOf(col) ==
    {col.counters[m] : m \in DOMAIN col.counters}
        \cup {col.gauges[m] : m \in DOMAIN col.gauges}

\* clear_metrics that forgets the gauge families
clear_metrics_counters(col, fams) ==
    [f \in DOMAIN fams |->
        IF f \in {col.counters[m] : m \in DOMAIN col.counters}
        THEN EmptyMap ELSE fams[f]]

\* clear_metrics that forgets the counter families
clear_metrics_gauges(col, fams) ==
    [f \in DOMAIN fams |->
        IF f \in {col.gauges[m] : m \in DOMAIN col.gauges}
        THEN EmptyMap ELSE fams[f]]

\* clear_metrics: every counter family and every gauge family of the collection
clear_metrics(col, fams) ==
    [f \in DOMAIN fams |-> IF f \in FamiliesOf(col) THEN EmptyMap ELSE fams[f]]

----------------------------------------------------------------------------
(* The data source: what loaded_programs() and loaded_maps() return *)

\* A listing element is a failed element or the info of one object.  `age`
\* is now - loaded_at in nanoseconds, negative when the load time lies in
\* the future.  Names are the kernel's object names: valid UTF-8, so that
\* name_as_str() returns the name.
Failed == [ok |-> FALSE]

Prog7 ==
    [ok |-> TRUE, id |-> 7, name |-> "foo", prog_type |-> "kprobe", tag |-> 0,
     age |-> 5, size_jitted |-> 64, size_translated |-> 32, run_time_ns |-> 9,
     run_cnt |-> 42, verified_instruction_count |-> 8, memory_locked |-> 4096]

ProgInfos ==
    {Prog7,
     [Prog7 EXCEPT !.id = 8, !.name = "bar"],
     [Prog7 EXCEPT !.id = 8, !.name = ""],
     [Prog7 EXCEPT !.age = -1]}

Map3 ==
    [ok |-> TRUE, id |-> 3, name |-> "m", map_type |-> "hash",
     key_size |-> 4, value_size |-> 8, max_entries |-> 16]

MapInfos == {Map3, [Map3 EXCEPT !.name = ""]}

ProgListings == SeqsUpTo(ProgInfos \cup {Failed}, MaxListing)
MapListings == SeqsUpTo(MapInfos \cup {Failed}, MaxListing)

----------------------------------------------------------------------------
(* bpf-metrics: the collectors *)

\* ProgLabels::new
ProgLabels(info) ==
    [prog_type |-> info.prog_type, id |-> info.id, tag |-> info.tag,
     name |-> info.name]

\* MapLabels::new
MapLabels(info) ==
    [map_type |-> info.map_type, id |-> info.id, name |-> info.name]

\* the updates of the loop over loaded_programs(), one per ProgMetric
UpdateProg(col, fams, prog) ==
    LET labels == ProgLabels(prog)
        f1 == update_counter(col, fams, "Uptime", labels, prog.age)
        f2 == update_gauge(col, f1, "SizeJitted", labels, prog.size_jitted)
        f3 == update_gauge(col, f2, "SizeTranslated", labels, prog.size_translated)
        f4 == update_counter(col, f3, "RunTime", labels, prog.run_time_ns)
        f5 == update_counter(col, f4, "RunCount", labels, prog.run_cnt)
        f6 == update_gauge(col, f5, "VerifiedInstructions", labels,
                           prog.verified_instruction_count)
    IN  update_gauge(col, f6, "MemoryLocked", labels, prog.memory_locked)

\* the loop body without the check of the name
CollectProg_any_name(col, fams, prog) ==
    IF ~prog.ok THEN fams
    ELSE IF prog.age < 0 THEN fams
    ELSE UpdateProg(col, fams, prog)

\* the body of the loop over loaded_programs(): a failed element, a program
\* with an empty name and one loaded in the future are skipped
CollectProg(col, fams, prog) ==
    IF ~prog.ok THEN fams
    ELSE IF prog.name = "" THEN fams
    ELSE IF prog.age < 0 THEN fams
    ELSE UpdateProg(col, fams, prog)

\* the body of the loop over loaded_maps()
CollectMap(col, fams, map) ==
    IF ~map.ok THEN fams
    ELSE IF map.name = "" THEN fams
    ELSE
      LET labels == MapLabels(map)
          f1 == update_gauge(col, fams, "KeySize", labels, map.key_size)
          f2 == update_gauge(col, f1, "ValueSize", labels, map.value_size)
      IN  update_gauge(col, f2, "MaxEntries", labels, map.max_entries)

RECURSIVE CollectListing_stop(_, _, _)
\* a loop over the listing that ends at the first failed element
CollectListing_stop(col, fams, listing) ==
    IF listing = <<>> THEN fams
    ELSE IF ~Head(listing).ok THEN fams
    ELSE CollectListing_stop(col,
            IF col.subject = "prog" THEN CollectProg(col, fams, Head(listing))
            ELSE CollectMap(col, fams, Head(listing)),
            Tail(listing))

RECURSIVE CollectListing(_, _, _)
\* Collector::collect_metrics of a program or map collection
CollectListing(col, fams, listing) ==
    IF listing = <<>> THEN fams
    ELSE CollectListing(col,
            IF col.subject = "prog" THEN CollectProg(col, fams, Head(listing))
            ELSE CollectMap(col, fams, Head(listing)),
            Tail(listing))

\* the label sets a collector builds from a listing
LabelsIn(subject, listing) ==
    IF subject = "prog"
    THEN {ProgLabels(listing[i]) : i \in {j \in DOMAIN listing :
            listing[j].ok /\ listing[j].name # "" /\ listing[j].age >= 0}}
    ELSE {MapLabels(listing[i]) : i \in {j \in DOMAIN listing :
            listing[j].ok /\ listing[j].name # ""}}

ListingFor(subject, progs, maps) == IF subject = "prog" THEN progs ELSE maps

RECURSIVE CollectFrom(_, _, _, _, _)
\* BpfMetrics::collect_metrics from collection i on.  The link collector is
\* todo!(): it panics, and the collections after it are not reached.
CollectFrom(cols, i, fams, progs, maps) ==
    IF i > Len(cols) THEN [families |-> fams, panic |-> FALSE, done |-> i - 1]
    ELSE IF cols[i].subject = "link"
         THEN [families |-> fams, panic |-> TRUE, done |-> i - 1]
    ELSE CollectFrom(cols, i + 1,
            CollectListing(cols[i], fams,
                           ListingFor(cols[i].subject, progs, maps)),
            progs, maps)

RECURSIVE ClearAll(_, _, _)
\* the loop of export_metrics over the collections
ClearAll(cols, i, fams) ==
    IF i > Len(cols) THEN fams
    ELSE ClearAll(cols, i + 1, clear_metrics(cols[i], fams))

----------------------------------------------------------------------------
(* bpftop: the nom parsers of metrics.rs.  A parser reads buf[i..end] and  *)
(* returns Ok with the position after what it consumed and its value,      *)
(* Err::Error, or Err::Incomplete (a streaming parser at the end of its    *)
(* input).  The numbers of the model stay far below u32::MAX, so the       *)
(* checked arithmetic of the integer parsers always succeeds.              *)

Ok(pos, val) == [st |-> "ok", pos |-> pos, val |-> val]
Error == [st |-> "error"]
Incomplete == [st |-> "incomplete"]

\* nom::character::complete::char
CompleteChar(c, buf, i, end) ==
    IF i <= end /\ buf[i] = c THEN Ok(i + 1, c) ELSE Error

\* nom::character::streaming::char
StreamingChar(c, buf, i, end) ==
    IF i > end THEN Incomplete
    ELSE IF buf[i] = c THEN Ok(i + 1, c) ELSE Error

\* Compare of a tag with the input: a mismatch in the common part is an
\* error, an input that ends inside the tag is incomplete
Compare(t, buf, i, end) ==
    LET avail == end - i + 1
        n == IF avail < Len(t) THEN avail ELSE Len(t)
    IN  IF \E k \in 1..n : buf[i + k - 1] # t[k] THEN "error"
        ELSE IF avail < Len(t) THEN "incomplete"
        ELSE "ok"

\* nom::bytes::streaming::tag
Tag(t, buf, i, end) ==
    LET c == Compare(t, buf, i, end) IN
    IF c = "ok" THEN Ok(i + Len(t), t)
    ELSE IF c = "incomplete" THEN Incomplete ELSE Error

\* nom::bytes::complete::tag
CompleteTag(t, buf, i, end) ==
    IF Compare(t, buf, i, end) = "ok" THEN Ok(i + Len(t), t) ELSE Error

RECURSIVE Find(_, _, _, _)
\* position of the first token c in buf[i..end], or 0
Find(c, buf, i, end) ==
    IF i > end THEN 0
    ELSE IF buf[i] = c THEN i
    ELSE Find(c, buf, i + 1, end)

\* nom::bytes::streaming::take_until
TakeUntil(c, buf, i, end) ==
    LET j == Find(c, buf, i, end) IN
    IF j = 0 THEN Incomplete ELSE Ok(j, SubSeq(buf, i, j - 1))

\* nom::bytes::streaming::take_until1
TakeUntil1(c, buf, i, end) ==
    LET j == Find(c, buf, i, end) IN
    IF j = 0 THEN Incomplete
    ELSE IF j = i THEN Error
    ELSE Ok(j, SubSeq(buf, i, j - 1))

IsDigit(c) == \E d \in 1..10 : DigitTok[d] = c
DigitValue(c) == (CHOOSE d \in 1..10 : DigitTok[d] = c) - 1

RECURSIVE Uint(_, _, _, _, _)
\* nom::character::streaming::u32 and u64: digits up to the first token
\* that is no digit; digits that reach the end of the input are incomplete
Uint(buf, i, end, start, value) ==
    IF i > end THEN Incomplete
    ELSE IF ~IsDigit(buf[i])
         THEN IF i = start THEN Error ELSE Ok(i, value)
    ELSE Uint(buf, i + 1, end, start, 10 * value + DigitValue(buf[i]))

T_ebpf == <<"ebpf", "_">>
T_run_time_nanoseconds == <<"run", "_", "time", "_", "nanoseconds">>
T_execution_count == <<"execution", "_", "count">>
T_time_loaded_nanoseconds == <<"time", "_", "loaded", "_", "nanoseconds">>
T_total == <<"_", "total">>
T_id == <<"{", "id", "=", "\"">>
T_program_type == <<"\"", ",", "program", "_", "type", "=", "\"">>
T_name == <<"\"", ",", "name", "=", "\"">>
T_close == <<"\"", "}">>

\* an alt that has a fourth tag, for the name of the uptime family
MetricNameAlt_uptime(buf, i, end) ==
    LET a == Tag(T_run_time_nanoseconds, buf, i, end)
        b == Tag(T_execution_count, buf, i, end)
        c == Tag(T_time_loaded_nanoseconds, buf, i, end)
        d == Tag(<<"uptime", "_", "nanoseconds">>, buf, i, end)
    IN  IF a.st # "error" THEN a ELSE IF b.st # "error" THEN b
        ELSE IF c.st # "error" THEN c ELSE d

\* alt((tag(..), tag(..), tag(..))): the first that does not fail with
\* Err::Error decides
MetricNameAlt(buf, i, end) ==
    LET a == Tag(T_run_time_nanoseconds, buf, i, end)
        b == Tag(T_execution_count, buf, i, end)
        c == Tag(T_time_loaded_nanoseconds, buf, i, end)
    IN  IF a.st # "error" THEN a ELSE IF b.st # "error" THEN b ELSE c

\* One step of a sequence of parsers (a nom tuple): after p succeeded, what
\* the next parser r returned, with the values collected so far; the value
\* of r is dropped
Skip(p, r) == IF r.st # "ok" THEN r ELSE Ok(r.pos, p.val)

\* the same, and the value of r is kept under the name field
Keep(p, field, r) == IF r.st # "ok" THEN r ELSE Ok(r.pos, Put(p.val, field, r.val))

ThenTag(t, buf, end, p) ==
    IF p.st # "ok" THEN p ELSE Skip(p, Tag(t, buf, p.pos, end))

ThenChar(c, buf, end, p) ==
    IF p.st # "ok" THEN p ELSE Skip(p, StreamingChar(c, buf, p.pos, end))

ThenUint(field, buf, end, p) ==
    IF p.st # "ok" THEN p ELSE Keep(p, field, Uint(buf, p.pos, end, p.pos, 0))

ThenTakeUntil(field, c, buf, end, p) ==
    IF p.st # "ok" THEN p ELSE Keep(p, field, TakeUntil(c, buf, p.pos, end))

ThenMetricName(field, buf, end, p) ==
    IF p.st # "ok" THEN p ELSE Keep(p, field, MetricNameAlt(buf, p.pos, end))

\* parse_metric: one sample line, without its newline.  Read from the
\* innermost call outwards: "ebpf_", the metric name, "_total", the three
\* labels, a space and the counter.
parse_metric(buf, i, end) ==
    ThenUint("counter", buf, end,
    ThenChar(" ", buf, end,
    ThenTag(T_close, buf, end,
    ThenTakeUntil("prog_name", "\"", buf, end,
    ThenTag(T_name, buf, end,
    ThenTakeUntil("prog_type", "\"", buf, end,
    ThenTag(T_program_type, buf, end,
    ThenUint("prog_id", buf, end,
    ThenTag(T_id, buf, end,
    ThenTag(T_total, buf, end,
    ThenMetricName("metric_name", buf, end,
    Skip(Ok(i, EmptyMap), CompleteTag(T_ebpf, buf, i, end)))))))))))))

RECURSIVE MetricList(_, _, _, _)
\* what the loop of separated_list0 does with the element m it parsed
\* after a separator, the list res ending at position i
MetricListElement(buf, i, end, res, m) ==
    IF m.st = "error" THEN Ok(i, res)
    ELSE IF m.st = "incomplete" THEN Incomplete
    ELSE MetricList(buf, m.pos, end, Append(res, m.val))

\* the loop of separated_list0(complete::char('\n'), parse_metric)
MetricList(buf, i, end, res) ==
    IF CompleteChar("\n", buf, i, end).st = "error" THEN Ok(i, res)
    ELSE MetricListElement(buf, i, end, res, parse_metric(buf, i + 1, end))

\* separated_list1: the error of the first element is the list's error
FirstMetric_list1(buf, i, end, m) ==
    IF m.st # "ok" THEN m ELSE MetricList(buf, m.pos, end, <<m.val>>)

\* what separated_list0 does with its first element m
FirstMetric(buf, i, end, m) ==
    IF m.st = "error" THEN Ok(i, <<>>)
    ELSE IF m.st = "incomplete" THEN Incomplete
    ELSE MetricList(buf, m.pos, end, <<m.val>>)

\* separated_list0(complete::char('\n'), parse_metric)
SeparatedList0(buf, i, end) == FirstMetric(buf, i, end, parse_metric(buf, i, end))

\* the rest of a metadata line after '#' at position i - 1
AfterHash(buf, i, end, t) ==
    IF t.st # "ok" THEN t ELSE StreamingChar("\n", buf, t.pos, end)

\* tuple((complete::char('#'), take_until1("\n"), streaming::char('\n')))
MetadataLine(buf, i, end) ==
    IF CompleteChar("#", buf, i, end).st # "ok" THEN Error
    ELSE AfterHash(buf, i + 1, end, TakeUntil1("\n", buf, i + 1, end))

\* the number of metadata lines parse_section counts
MetadataLines == 3

RECURSIVE CountLines(_, _, _, _)
\* what count does with the line l it parsed, n lines still to come
CountLine(buf, end, n, l) ==
    IF l.st # "ok" THEN l ELSE CountLines(buf, l.pos, end, n - 1)

\* count(.., 3)
CountLines(buf, i, end, n) ==
    IF n = 0 THEN Ok(i, n)
    ELSE CountLine(buf, end, n, MetadataLine(buf, i, end))

\* the result of parse_section from the metric list ms of its text, which
\* ends before position pos
SectionResult(pos, ms) == IF ms.st # "ok" THEN ms ELSE Ok(pos, ms.val)

\* the metric lines at the start of the text section, which starts at from
SectionMetrics(buf, from, section) ==
    IF section.st # "ok" THEN section
    ELSE SectionResult(section.pos, SeparatedList0(buf, from, section.pos - 1))

\* the text up to the next '#', after the metadata lines meta
SectionText(buf, end, meta) ==
    IF meta.st # "ok" THEN meta
    ELSE SectionMetrics(buf, meta.pos, TakeUntil("#", buf, meta.pos, end))

\* parse_section: the metadata lines, the text up to the next '#', and the
\* metric lines at the start of that text
parse_section(buf, i, end) ==
    SectionText(buf, end, CountLines(buf, i, end, MetadataLines))

\* an entry that starts with the sample as the previous reading
NewBpfProgram_prev(m) ==
    [id |-> m.prog_id, bpf_type |-> m.prog_type, name |-> m.prog_name,
     prev_runtime_ns |-> m.counter, run_time_ns |-> 0, prev_run_cnt |-> m.counter,
     run_cnt |-> 0, uptime |-> 0, period_ns |-> 0, processes |-> <<>>]

\* the entry deserialize inserts for an id it has not seen
NewBpfProgram(m) ==
    [id |-> m.prog_id, bpf_type |-> m.prog_type, name |-> m.prog_name,
     prev_runtime_ns |-> 0, run_time_ns |-> 0, prev_run_cnt |-> 0, run_cnt |-> 0,
     uptime |-> 0, period_ns |-> 0, processes |-> <<>>]

\* a match whose every arm is the default arm
SetField_default(prog, m) == [prog EXCEPT !.uptime = m.counter]

\* the match on metric_name of deserialize
SetField(prog, m) ==
    IF m.metric_name = T_run_time_nanoseconds
    THEN [prog EXCEPT !.run_time_ns = m.counter]
    ELSE IF m.metric_name = T_execution_count
    THEN [prog EXCEPT !.run_cnt = m.counter]
    ELSE [prog EXCEPT !.uptime = m.counter]

\* an entry that replaces the one the id has
Entry_insert(acc, m) == NewBpfProgram(m)

\* programs.entry(prog_id).or_insert_with(..)
Entry(acc, m) == IF m.prog_id \in DOMAIN acc THEN acc[m.prog_id] ELSE NewBpfProgram(m)

RECURSIVE FoldMetrics(_, _)
\* the closure of fold_many0: each metric of a section into the BTreeMap
FoldMetrics(acc, ms) ==
    IF ms = <<>> THEN acc
    ELSE FoldMetrics(Put(acc, Head(ms).prog_id, SetField(Entry(acc, Head(ms)), Head(ms))),
                     Tail(ms))

RECURSIVE FoldMany0(_, _, _)
\* what fold_many0 does with the result s of parse_section at position i
FoldSection(buf, i, acc, s) ==
    IF s.st = "error" THEN Ok(i, acc)
    ELSE IF s.st = "incomplete" THEN Incomplete
    ELSE IF s.pos = i THEN Error
    ELSE FoldMany0(buf, s.pos, FoldMetrics(acc, s.val))

\* fold_many0(parse_section, BTreeMap::new, ..)
FoldMany0(buf, i, acc) == FoldSection(buf, i, acc, parse_section(buf, i, Len(buf)))

RECURSIVE Values(_)
\* BTreeMap::into_values: the values in increasing order of key
Values(acc) ==
    IF DOMAIN acc = {} THEN <<>>
    ELSE LET k == CHOOSE x \in DOMAIN acc : \A y \in DOMAIN acc : x <= y IN
         <<acc[k]>> \o Values([x \in DOMAIN acc \ {k} |-> acc[x]])

\* what deserialize does with the result r of fold_many0: Ok with the
\* records, Err (an error or incomplete input), or the panic of assert_eq!
Deserialized(buf, r) ==
    IF r.st # "ok" THEN [kind |-> r.st, records |-> <<>>]
    ELSE IF SubSeq(buf, r.pos, Len(buf)) # EOFLine
    THEN [kind |-> "panic", records |-> <<>>]
    ELSE [kind |-> "ok", records |-> Values(r.val)]

\* deserialize
deserialize(buf) == Deserialized(buf, FoldMany0(buf, 1, EmptyMap))
----------------------------------------------------------------------------
(* What a call leaves behind for the caller and for the properties *)

NoResult == [kind |-> "none"]

\* a call that returned normally, with no output
Call(op) ==
    [op |-> op, ok |-> TRUE, panic |-> FALSE, buffer |-> <<>>, samples |-> {},
     arg |-> <<>>, note |-> {}]

\* what a listing held besides plain objects
NotesOf(subject, listing) ==
    {"failed" : i \in {j \in DOMAIN listing : ~listing[j].ok}}
    \cup {"empty_name" : i \in {j \in DOMAIN listing :
                                    listing[j].ok /\ listing[j].name = ""}}
    \cup {"future" : i \in {j \in DOMAIN listing :
                                subject = "prog" /\ listing[j].ok
                                /\ listing[j].name # "" /\ listing[j].age < 0}}

----------------------------------------------------------------------------
(* bpf-metrics: BpfMetrics *)

\* the metric options the callers pass
ProgOptions ==
    {<<"RunCount", "MemoryLocked">>,
     <<"Uptime", "Uptime">>}

MapOptions == {<<"KeySize", "MaxEntries">>}

\* BpfMetrics::new
InitBpf ==
    /\ crate = "bpf"
    /\ registry = <<>>
    /\ metrics = <<>>
    /\ families = EmptyMap
    /\ last = Call("new")
    /\ decoded = NoResult
    /\ seen = <<>>
    /\ cycle = <<>>
    /\ phase = "new"
    /\ orig = NoResult
    /\ handlers = <<>>

Register(subject, opts) ==
    LET st == init_with_metrics(registry, families, subject, opts) IN
    /\ crate = "bpf"
    /\ ~last.panic
    /\ Len(metrics) < MaxRegs
    /\ registry' = st.registry
    /\ families' = st.families
    /\ metrics' = Append(metrics, st.col)
    /\ last' = [Call("register") EXCEPT !.arg = opts]
    /\ decoded' = NoResult
    /\ seen' = Append(seen, {})
    /\ cycle' = Append(cycle, {})
    /\ UNCHANGED <<handlers, crate, phase, orig>>

\* BpfMetrics::register_prog_metrics
RegisterProgMetrics == \E opts \in ProgOptions : Register("prog", opts)

\* BpfMetrics::register_map_metrics
RegisterMapMetrics == \E opts \in MapOptions : Register("map", opts)

\* BpfMetrics::register_link_metrics
RegisterLinkMetrics == Register("link", <<>>)

HasSubject(subject) == \E i \in DOMAIN metrics : metrics[i].subject = subject

\* BpfMetrics::collect_metrics.  Collections of one subject kind read the
\* same listing within one call.  The call keeps, as its argument, how
\* many collections returned and the label sets the data source listed.
CollectMetrics ==
    /\ crate = "bpf"
    /\ ~last.panic
    /\ \E progs \in IF HasSubject("prog") THEN ProgListings ELSE {<<>>},
          maps \in IF HasSubject("map") THEN MapListings ELSE {<<>>} :
        LET r == CollectFrom(metrics, 1, families, progs, maps)
            obs == [i \in DOMAIN metrics |->
                      IF i <= r.done
                      THEN LabelsIn(metrics[i].subject,
                                    ListingFor(metrics[i].subject, progs, maps))
                      ELSE {}]
        IN  /\ families' = r.families
            /\ last' = [Call("collect") EXCEPT
                          !.ok = ~r.panic, !.panic = r.panic,
                          !.arg = [done |-> r.done,
                                   prog |-> LabelsIn("prog", progs),
                                   map |-> LabelsIn("map", maps),
                                   link |-> {}],
                          !.note = UNION {NotesOf(metrics[i].subject,
                                                 ListingFor(metrics[i].subject,
                                                            progs, maps)) :
                                            i \in 1..r.done}]
            /\ seen' = obs
            /\ cycle' = [i \in DOMAIN metrics |-> cycle[i] \cup obs[i]]
    /\ decoded' = NoResult
    /\ phase' = "collected"
    /\ UNCHANGED <<handlers, crate, registry, metrics, orig>>

\* BpfMetrics::export_metrics.  text::encode returns Ok with the text
\* written to the caller's (fresh) buffer, or Err, and `?` then returns
\* before the loop that clears.
ExportMetrics ==
    /\ crate = "bpf"
    /\ ~last.panic
    /\ \E encoded \in BOOLEAN :
        IF encoded
        THEN /\ \E text \in Encode(registry, families) :
                  last' = [Call("export") EXCEPT
                             !.buffer = text,
                             !.samples = SamplesOf(registry, families)]
             /\ families' = ClearAll(metrics, 1, families)
             /\ cycle' = [i \in DOMAIN metrics |-> {}]
             /\ phase' = "exported"
        ELSE /\ last' = [Call("export") EXCEPT !.ok = FALSE]
             /\ UNCHANGED <<handlers, families, cycle, phase>>
    /\ decoded' = NoResult
    /\ UNCHANGED <<handlers, crate, registry, metrics, seen, orig>>

----------------------------------------------------------------------------
(* bpf-metrics: a MetricCollection used on its own *)

CounterValues == {41, 42}
GaugeValues == {-1, 42}

LabelSetsOf(subject) ==
    IF subject = "prog"
    THEN {ProgLabels(Prog7), ProgLabels([Prog7 EXCEPT !.id = 8, !.name = "bar"])}
    ELSE {MapLabels(Map3), MapLabels([Map3 EXCEPT !.id = 4, !.name = "n"])}

MetricsOf(subject) == IF subject = "prog" THEN ProgMetric ELSE MapMetric

\* init_with_metrics on a fresh registry
InitCollection ==
    /\ crate = "collection"
    /\ \E subject \in {"prog", "map"} :
        \E opts \in IF subject = "prog" THEN ProgOptions ELSE MapOptions :
          LET st == init_with_metrics(<<>>, EmptyMap, subject, opts) IN
          /\ registry = st.registry
          /\ families = st.families
          /\ metrics = <<st.col>>
          /\ last = [Call("init_with_metrics") EXCEPT !.arg = opts]
    /\ decoded = NoResult
    /\ seen = <<{}>>
    /\ cycle = <<{}>>
    /\ phase = "new"
    /\ orig = NoResult
    /\ handlers = <<>>

\* the value a family map of the collection holds for the labels, if any
Stored(map, fams, metric, labels) ==
    IF metric \in DOMAIN map /\ labels \in DOMAIN fams[map[metric]]
    THEN <<fams[map[metric]][labels]>>
    ELSE <<>>

\* MetricCollection::update_counter
UpdateCounter ==
    /\ crate = "collection"
    /\ \E metric \in MetricsOf(metrics[1].subject),
          labels \in LabelSetsOf(metrics[1].subject),
          value \in CounterValues :
        /\ families' = update_counter(metrics[1], families, metric, labels, value)
        /\ last' = [Call("update_counter") EXCEPT
                      !.arg = [metric |-> metric, labels |-> labels, value |-> value,
                               prev |-> Stored(metrics[1].counters, families,
                                               metric, labels)]]
    /\ UNCHANGED <<handlers, crate, registry, metrics, decoded, seen, cycle, phase, orig>>

\* MetricCollection::update_gauge
UpdateGauge ==
    /\ crate = "collection"
    /\ \E metric \in MetricsOf(metrics[1].subject),
          labels \in LabelSetsOf(metrics[1].subject),
          value \in GaugeValues :
        /\ families' = update_gauge(metrics[1], families, metric, labels, value)
        /\ last' = [Call("update_gauge") EXCEPT
                      !.arg = [metric |-> metric, labels |-> labels, value |-> value,
                               prev |-> Stored(metrics[1].gauges, families,
                                               metric, labels)]]
    /\ UNCHANGED <<handlers, crate, registry, metrics, decoded, seen, cycle, phase, orig>>

\* Reset::clear_metrics
ClearMetrics ==
    /\ crate = "collection"
    /\ families' = clear_metrics(metrics[1], families)
    /\ last' = Call("clear_metrics")
    /\ UNCHANGED <<handlers, crate, registry, metrics, decoded, seen, cycle, phase, orig>>

----------------------------------------------------------------------------
(* ebpf-metrics: OpenMetrics *)

\* the family objects of ProgramMetrics
RunTimeNs == 1
RunCnt == 2
UptimeFam == 3

EbpfDescriptor(kind, name, help, unit, fam) ==
    [prefix |-> <<"ebpf">>, name |-> name, unit |-> unit, help |-> help,
     typ |-> "counter", subject |-> "ebpf", kind |-> kind, fam |-> fam]

RunTimeDescriptor ==
    EbpfDescriptor("run_time_ns", <<"run", "_", "time">>,
                   "Duration that the program has been running",
                   Nanoseconds, RunTimeNs)

RunCntDescriptor ==
    EbpfDescriptor("run_cnt", <<"execution">>,
                   "Execution count of the program", Count, RunCnt)

UptimeDescriptor ==
    EbpfDescriptor("uptime", <<"uptime">>,
                   "Duration that the program has been loaded",
                   Nanoseconds, UptimeFam)

\* u64 arithmetic wraps at 2^64.  The model wraps at a smaller power of two
\* that is still above every value the data source reports.
U64 == 2 ^ 20

\* built with overflow checks (debug) or without (release): a property of
\* the build, fixed for a run
OverflowChecks == crate = "ebpf-debug"

IsEbpf == crate \in {"ebpf-debug", "ebpf-release"}

\* OpenMetrics::new
InitEbpf ==
    /\ crate \in {"ebpf-debug", "ebpf-release"}
    /\ registry = <<RunTimeDescriptor, RunCntDescriptor, UptimeDescriptor>>
    /\ metrics = <<>>
    /\ families = [f \in {RunTimeNs, RunCnt, UptimeFam} |-> EmptyMap]
    /\ last = Call("new")
    /\ decoded = NoResult
    /\ seen = <<>>
    /\ cycle = <<>>
    /\ phase = "new"
    /\ orig = NoResult
    /\ handlers = <<>>

\* Labels::new
Labels(info) ==
    [id |-> info.id, program_type |-> info.prog_type, name |-> info.name]

\* get_or_create(&labels) followed by inc_by(reported - metric.get()) on
\* one family; st = [families, panic, underflow].  The subtraction
\* underflows when the reported value is below the stored one: a panic
\* with overflow checks, a wrapped difference without.
IncTo(st, fam, labels, reported, checks) ==
    IF st.panic THEN st
    ELSE
      LET created == IF labels \in DOMAIN st.families[fam] THEN st.families
                     ELSE [st.families EXCEPT ![fam] = Put(@, labels, 0)]
          stored == created[fam][labels]
      IN  IF checks /\ reported < stored
          THEN [families |-> created, panic |-> TRUE, underflow |-> TRUE]
          ELSE [families |->
                    [created EXCEPT ![fam] =
                        Put(@, labels, (stored + ((reported - stored) % U64)) % U64)],
                panic |-> FALSE,
                underflow |-> st.underflow \/ reported < stored]

\* the body of the loop of record_metrics
RecordProg(st, info, checks) ==
    IF st.panic \/ ~info.ok THEN st
    ELSE IF info.name = "" THEN st
    ELSE IF info.age < 0 THEN st
    ELSE
      LET labels == Labels(info)
          s1 == IncTo(st, RunTimeNs, labels, info.run_time_ns, checks)
          s2 == IncTo(s1, RunCnt, labels, info.run_cnt, checks)
      IN  IncTo(s2, UptimeFam, labels, info.age, checks)

RECURSIVE RecordListing(_, _, _)
RecordListing(st, listing, checks) ==
    IF listing = <<>> THEN st
    ELSE RecordListing(RecordProg(st, Head(listing), checks), Tail(listing), checks)

\* what loaded_programs() returns to ebpf-metrics: also a later, smaller
\* reading of program 7 and a program that reuses id 7 under another name
EbpfListings ==
    SeqsUpTo(ProgInfos \cup {[Prog7 EXCEPT !.run_time_ns = 6, !.run_cnt = 41, !.age = 3],
                             [Prog7 EXCEPT !.name = "bar"], Failed}, MaxListing)

\* OpenMetrics::record_metrics
RecordMetrics ==
    /\ IsEbpf
    /\ ~last.panic
    /\ \E listing \in EbpfListings :
        LET r == RecordListing([families |-> families, panic |-> FALSE,
                                underflow |-> FALSE],
                               listing, OverflowChecks)
        IN  /\ families' = r.families
            /\ last' = [Call("record") EXCEPT
                          !.ok = ~r.panic, !.panic = r.panic,
                          !.note = NotesOf("prog", listing)
                                   \cup (IF r.underflow THEN {"underflow"} ELSE {})]
    /\ decoded' = NoResult
    /\ UNCHANGED <<handlers, crate, registry, metrics, seen, cycle, phase, orig>>

\* OpenMetrics::scrape_metrics: the families are encoded and kept
ScrapeMetrics ==
    /\ IsEbpf
    /\ ~last.panic
    /\ \E encoded \in BOOLEAN :
        IF encoded
        THEN \E text \in Encode(registry, families) :
                last' = [Call("scrape") EXCEPT
                           !.buffer = text,
                           !.samples = SamplesOf(registry, families)]
        ELSE last' = [Call("scrape") EXCEPT !.ok = FALSE]
    /\ decoded' = NoResult
    /\ UNCHANGED <<handlers, crate, registry, metrics, families, seen, cycle, phase, orig>>

----------------------------------------------------------------------------
(* bpftop reads a payload *)

\* calls of deserialize by one reader of payloads
MaxCalls == 3

HasPayload == last.op \in {"export", "scrape", "payload"} /\ last.ok

\* deserialize applied to the text the last call wrote.  A reader of
\* payloads keeps the first payload, what it decoded to, and the number of
\* its calls.
Deserialize ==
    /\ HasPayload
    /\ decoded = NoResult
    /\ (crate = "decode" /\ orig # NoResult) => orig.calls < MaxCalls
    /\ decoded' = deserialize(last.buffer)
    /\ orig' = IF crate # "decode" THEN orig
               ELSE IF orig = NoResult
               THEN [kind |-> "first", buffer |-> last.buffer, result |-> decoded',
                     calls |-> 1]
               ELSE [orig EXCEPT !.calls = @ + 1]
    /\ UNCHANGED <<handlers, crate, registry, metrics, families, last, seen, cycle, phase>>

----------------------------------------------------------------------------
(* deserialize on payloads of any family sections *)

\* family sections of a payload
MaxSections == 2
\* sample lines of one section
MaxSamples == 2

\* the family the parser's third tag is written for
TimeLoadedDescriptor ==
    [UptimeDescriptor EXCEPT !.name = <<"time", "_", "loaded">>, !.kind = "time_loaded"]

SectionDescriptors ==
    {RunTimeDescriptor, RunCntDescriptor, UptimeDescriptor, TimeLoadedDescriptor}

SampleChoices ==
    {[labels |-> [id |-> 1, program_type |-> "kprobe", name |-> "a"], value |-> 1],
     [labels |-> [id |-> 1, program_type |-> "kprobe", name |-> "b"], value |-> 2],
     [labels |-> [id |-> 1, program_type |-> "kprobe", name |-> "a"], value |-> 3],
     [labels |-> [id |-> 2, program_type |-> "xdp", name |-> "a"], value |-> 1]}

Sections ==
    {[d |-> d, samples |-> ss] :
        d \in SectionDescriptors, ss \in SeqsUpTo(SampleChoices, MaxSamples)}

RECURSIVE SampleLines(_, _)
SampleLines(d, ss) ==
    IF ss = <<>> THEN <<>>
    ELSE EncodeSample(d, Head(ss).labels, Head(ss).value) \o SampleLines(d, Tail(ss))

\* a section as text: its metadata lines and its sample lines
SectionLines(sec) == EncodeFamily(sec.d, EmptyMap, <<>>) \o SampleLines(sec.d, sec.samples)

RECURSIVE SectionsText(_)
SectionsText(secs) ==
    IF secs = <<>> THEN <<>> ELSE SectionLines(Head(secs)) \o SectionsText(Tail(secs))

\* a payload: the sections, then # EOF
Payload(secs) == SectionsText(secs) \o EOFLine

InitDecode ==
    /\ crate = "decode"
    /\ registry = <<>>
    /\ metrics = <<>>
    /\ families = EmptyMap
    /\ \E secs \in SeqsUpTo(Sections, MaxSections) :
        last = [Call("payload") EXCEPT !.buffer = Payload(secs), !.arg = secs]
    /\ decoded = NoResult
    /\ seen = <<>>
    /\ cycle = <<>>
    /\ phase = "new"
    /\ orig = NoResult
    /\ handlers = <<>>

Orders(n) == {p \in [1..n -> 1..n] : \A i, j \in 1..n : p[i] = p[j] => i = j}

\* the caller hands over the same sections in another order, # EOF last
ShuffleSections ==
    /\ crate = "decode"
    /\ decoded # NoResult
    /\ \E p \in Orders(Len(last.arg)) :
        LET secs == [i \in 1..Len(last.arg) |-> last.arg[p[i]]] IN
        /\ secs # last.arg
        /\ last' = [Call("payload") EXCEPT !.buffer = Payload(secs), !.arg = secs]
    /\ decoded' = NoResult
    /\ UNCHANGED <<handlers, crate, registry, metrics, families, seen, cycle, phase, orig>>

----------------------------------------------------------------------------
(* The specifications *)

\* a process that drives a BpfMetrics and reads what it exports
Init == InitBpf

Next ==
    \/ RegisterProgMetrics
    \/ RegisterMapMetrics
    \/ RegisterLinkMetrics
    \/ CollectMetrics
    \/ ExportMetrics
    \/ Deserialize

Spec == Init /\ [][Next]_vars

\* a process that drives an OpenMetrics and reads what it scrapes
NextEbpf ==
    \/ RecordMetrics
    \/ ScrapeMetrics
    \/ Deserialize

SpecEbpf == InitEbpf /\ [][NextEbpf]_vars

\* either registry
InitAny == InitBpf \/ InitEbpf

NextAny == Next \/ NextEbpf

SpecAny == InitAny /\ [][NextAny]_vars

\* a MetricCollection driven through its own operations
NextCollection ==
    \/ UpdateCounter
    \/ UpdateGauge
    \/ ClearMetrics

SpecCollection == InitCollection /\ [][NextCollection]_vars

\* deserialize on payloads of any sections, in any order
NextDecode ==
    \/ Deserialize
    \/ ShuffleSections

SpecDecode == InitDecode /\ [][NextDecode]_vars

----------------------------------------------------------------------------
(* deserialize on payloads that are cut short or malformed *)

\* the sections of the well-formed payloads that are damaged
BaseSections ==
    {[d |-> d, samples |-> ss] :
        d \in {RunTimeDescriptor, RunCntDescriptor},
        ss \in SeqsUpTo({s \in SampleChoices : s.value = 1}, MaxSamples)}

\* sections with their metadata lines, of which one may be missing
LineSections ==
    {[d |-> RunTimeDescriptor, samples |-> ss, lines |-> ls] :
        ss \in SeqsUpTo({s \in SampleChoices : s.value = 3}, 1),
        ls \in {<<"HELP", "TYPE", "UNIT">>, <<"HELP", "TYPE">>, <<"HELP", "UNIT">>}}

\* a sample line written wrongly: with the label set of another label
\* type, with a value that is no number, or without the _total suffix
MalformedSample(d, s, how) ==
    CASE how = "label" ->
            EncodeSample([d EXCEPT !.subject = "prog"],
                         [prog_type |-> s.labels.program_type, id |-> s.labels.id,
                          tag |-> 0, name |-> s.labels.name], s.value)
      [] how = "value" ->
            FullName(d) \o <<"_", "total">> \o EncodeLabelSet(d.subject, s.labels)
            \o <<" ", "NaN", "\n">>
      [] OTHER -> EncodeSample([d EXCEPT !.typ = "gauge"], s.labels, s.value)

\* the sections as text, sample line j of section i malformed
SectionsTextWith(secs, i, j, how) ==
    Flatten([k \in DOMAIN secs |->
                EncodeFamily(secs[k].d, EmptyMap, <<>>)
                \o Flatten([m \in DOMAIN secs[k].samples |->
                              IF k = i /\ m = j
                              THEN MalformedSample(secs[k].d, secs[k].samples[m], how)
                              ELSE EncodeSample(secs[k].d, secs[k].samples[m].labels,
                                                secs[k].samples[m].value)])])

\* the payloads handed to deserialize: a well-formed payload cut at a
\* position, one as it is, one with text after or before its # EOF line,
\* one whose sections lack metadata lines, one with a malformed sample line
PayloadInputs ==
    UNION {{[kind |-> "cut", secs |-> secs, at |-> k] : k \in 0..(Len(Payload(secs)) - 1)} :
             secs \in SeqsUpTo({sec \in BaseSections :
                                  /\ Len(sec.samples) <= 1
                                  /\ \A j \in DOMAIN sec.samples : sec.samples[j].labels.id = 1},
                               MaxSections)}
    \cup {[kind |-> k, secs |-> secs] :
            k \in {"whole", "after", "before"}, secs \in SeqsUpTo(BaseSections, MaxSections)}
    \cup {[kind |-> "lines", secs |-> secs] :
            secs \in {ss \in SeqsUpTo(LineSections, MaxSections + 1) :
                        \E i \in DOMAIN ss : Len(ss[i].lines) < MetadataLines}}
    \cup UNION {UNION {{[kind |-> "sample", secs |-> secs, section |-> i, line |-> j,
                         how |-> how] :
                          j \in DOMAIN secs[i].samples, how \in {"label", "value", "total"}} :
                        i \in DOMAIN secs} :
                 secs \in SeqsUpTo(BaseSections, MaxSections)}

\* the text of an input; the sections of a "lines" input are written with
\* the metadata lines they have
TextOf(in) ==
    CASE in.kind = "cut" -> SubSeq(Payload(in.secs), 1, in.at)
      [] in.kind = "whole" -> Payload(in.secs)
      [] in.kind = "after" -> Payload(in.secs) \o <<"junk", "\n">>
      [] in.kind = "before" -> SectionsText(in.secs) \o <<"junk", "\n">> \o EOFLine
      [] in.kind = "lines" ->
            Flatten([i \in DOMAIN in.secs |->
                        Flatten([k \in DOMAIN in.secs[i].lines |->
                                    MetadataLineOf(in.secs[i].d, in.secs[i].lines[k])])
                        \o SampleLines(in.secs[i].d, in.secs[i].samples)])
            \o EOFLine
      [] OTHER -> SectionsTextWith(in.secs, in.section, in.line, in.how) \o EOFLine

InitPayload ==
    /\ crate = "payload"
    /\ registry = <<>>
    /\ metrics = <<>>
    /\ families = EmptyMap
    /\ \E in \in PayloadInputs :
        last = [Call("payload") EXCEPT !.buffer = TextOf(in), !.arg = in]
    /\ decoded = NoResult
    /\ seen = <<>>
    /\ cycle = <<>>
    /\ phase = "new"
    /\ orig = NoResult
    /\ handlers = <<>>

\* deserialize on a payload that may be cut short or malformed
SpecPayload == InitPayload /\ [][Deserialize]_vars

----------------------------------------------------------------------------
(* The example server: request handlers on one shared BpfMetrics *)

\* connections served at a time, each by a task of its own
MaxHandlers == 2
\* requests one connection carries
MaxRequests == 1

\* a handler: where it is in its call, the programs and the update its
\* collect_metrics has yet to write, whether it wrote one, and the label
\* sets its collect_metrics built from the listing, the requests it took
Idle == [pc |-> "idle", rest |-> <<>>, k |-> 1, wrote |-> FALSE, own |-> {}, served |-> 0]

\* main: a BpfMetrics with Uptime, RunTime and RunCount registered for
\* programs, shared by the handlers through an Arc, with no lock
InitHandlers ==
    LET st == init_with_metrics(<<>>, EmptyMap, "prog", <<"Uptime", "RunTime", "RunCount">>) IN
    /\ crate = "handlers"
    /\ registry = st.registry
    /\ metrics = <<st.col>>
    /\ families = st.families
    /\ last = Call("new")
    /\ decoded = NoResult
    /\ seen = <<{}>>
    /\ cycle = <<{}>>
    /\ phase = "new"
    /\ orig = NoResult
    /\ handlers = [h \in 1..MaxHandlers |-> Idle]

\* the updates of the loop body of the program collector, in its order
ProgUpdates ==
    <<"Uptime", "SizeJitted", "SizeTranslated", "RunTime", "RunCount",
      "VerifiedInstructions", "MemoryLocked">>

\* the k-th update of the loop body for one program
UpdateAt(col, fams, prog, k) ==
    CASE k = 1 -> update_counter(col, fams, "Uptime", ProgLabels(prog), prog.age)
      [] k = 2 -> update_gauge(col, fams, "SizeJitted", ProgLabels(prog), prog.size_jitted)
      [] k = 3 -> update_gauge(col, fams, "SizeTranslated", ProgLabels(prog),
                               prog.size_translated)
      [] k = 4 -> update_counter(col, fams, "RunTime", ProgLabels(prog), prog.run_time_ns)
      [] k = 5 -> update_counter(col, fams, "RunCount", ProgLabels(prog), prog.run_cnt)
      [] k = 6 -> update_gauge(col, fams, "VerifiedInstructions", ProgLabels(prog),
                               prog.verified_instruction_count)
      [] OTHER -> update_gauge(col, fams, "MemoryLocked", ProgLabels(prog),
                               prog.memory_locked)

\* the updates from the k-th on that find a family: the others touch
\* nothing that is shared
Pending(col, k) ==
    {j \in k..Len(ProgUpdates) :
        ProgUpdates[j] \in DOMAIN col.counters \cup DOMAIN col.gauges}

\* where a handler is after it wrote update j of the first program of rest
AfterUpdate(col, rest, j) ==
    IF Pending(col, j + 1) # {}
    THEN [Idle EXCEPT !.pc = "collect", !.rest = rest, !.k = j + 1, !.wrote = TRUE]
    ELSE IF Tail(rest) # <<>>
    THEN [Idle EXCEPT !.pc = "collect", !.rest = Tail(rest), !.wrote = TRUE]
    ELSE [Idle EXCEPT !.pc = "export"]

\* make_handler's closure is called with a request: collect_metrics starts
\* and reads the listing of the programs, of which the loop skips the
\* failed elements, the programs with no name and those loaded in the future
HandlerCollect ==
    /\ crate = "handlers"
    /\ \E h \in 1..MaxHandlers, listing \in ProgListings :
        LET collected == SelectSeq(listing,
                            LAMBDA prog : prog.ok /\ prog.name # "" /\ prog.age >= 0)
        IN  /\ handlers[h].pc = "idle"
            /\ handlers[h].served < MaxRequests
            /\ handlers' = [handlers EXCEPT ![h] =
                              IF collected = <<>> \/ Pending(metrics[1], 1) = {}
                              THEN [Idle EXCEPT !.pc = "export",
                                                !.own = LabelsIn("prog", listing),
                                                !.served = handlers[h].served + 1]
                              ELSE [Idle EXCEPT !.pc = "collect", !.rest = collected,
                                                !.own = LabelsIn("prog", listing),
                                                !.served = handlers[h].served + 1]]
    /\ UNCHANGED <<crate, registry, metrics, families, last, decoded, seen, cycle, phase,
                   orig>>

\* collect_metrics writes its next sample: one update_counter or
\* update_gauge, each under the lock of its family alone
HandlerUpdate ==
    /\ crate = "handlers"
    /\ \E h \in 1..MaxHandlers :
        /\ handlers[h].pc = "collect"
        /\ LET j == CHOOSE x \in Pending(metrics[1], handlers[h].k) :
                        \A y \in Pending(metrics[1], handlers[h].k) : x <= y
           IN  /\ families' = UpdateAt(metrics[1], families, Head(handlers[h].rest), j)
               /\ handlers' = [handlers EXCEPT ![h] =
                                 [AfterUpdate(metrics[1], handlers[h].rest, j)
                                    EXCEPT !.own = handlers[h].own,
                                           !.served = handlers[h].served]]
    /\ UNCHANGED <<crate, registry, metrics, last, decoded, seen, cycle, phase, orig>>

\* a handler is between two updates of its collect_metrics
PartWay(h) == handlers[h].pc = "collect" /\ handlers[h].wrote

\* the future of the handler runs export_metrics: text::encode writes the
\* families as they are, and Err returns before the clearing.  The call
\* keeps the label sets of the handler's collect_metrics and a note if
\* another handler was part-way through its collection.
HandlerEncode ==
    /\ crate = "handlers"
    /\ \E h \in 1..MaxHandlers, encoded \in BOOLEAN :
        /\ handlers[h].pc = "export"
        /\ IF encoded
           THEN /\ \E text \in Encode(registry, families) :
                     last' = [Call("export") EXCEPT
                                !.buffer = text,
                                !.samples = SamplesOf(registry, families),
                                !.arg = [handler |-> h, own |-> handlers[h].own],
                                !.note = IF \E g \in 1..MaxHandlers : g # h /\ PartWay(g)
                                         THEN {"partial"} ELSE {}]
                /\ handlers' = [handlers EXCEPT ![h] =
                                  [Idle EXCEPT !.pc = "clear",
                                               !.served = handlers[h].served]]
           ELSE /\ last' = [Call("export") EXCEPT
                                !.ok = FALSE,
                                !.arg = [handler |-> h, own |-> handlers[h].own]]
                /\ handlers' = [handlers EXCEPT ![h] =
                                  [Idle EXCEPT !.served = handlers[h].served]]
    /\ UNCHANGED <<crate, registry, metrics, families, decoded, seen, cycle, phase, orig>>

\* export_metrics clears the collections and returns Ok
HandlerClear ==
    /\ crate = "handlers"
    /\ \E h \in 1..MaxHandlers :
        /\ handlers[h].pc = "clear"
        /\ families' = ClearAll(metrics, 1, families)
        /\ handlers' = [handlers EXCEPT ![h] = [Idle EXCEPT !.served = handlers[h].served]]
    /\ UNCHANGED <<crate, registry, metrics, last, decoded, seen, cycle, phase, orig>>

\* the tasks of a multi-threaded runtime, interleaved at the steps above
SpecHandlers ==
    InitHandlers
    /\ [][HandlerCollect \/ HandlerUpdate \/ HandlerEncode \/ HandlerClear]_vars

----------------------------------------------------------------------------
(* Properties of BpfMetrics *)

AllFamiliesEmpty == \A f \in DOMAIN families : families[f] = EmptyMap

\* a sample line is the only line of a payload with a label set
HasSampleLine(text) == \E i \in DOMAIN text : text[i] = "{"

\* the step is a call of export_metrics that returns Ok
ExportOkStep == last'.op = "export" /\ last'.ok /\ decoded' = NoResult /\ last' # last

\* the collection that holds family f
Owner(f) == CHOOSE i \in DOMAIN metrics : f \in FamiliesOf(metrics[i])

C1_Cleared == (last.op = "export" /\ last.ok) => AllFamiliesEmpty

C1_SecondExport ==
    (phase = "exported" /\ last.op = "export" /\ last.ok /\ ExportOkStep)
        => ~HasSampleLine(last'.buffer)

\* C1: after an export_metrics that returned Ok every family of the registry
\* is empty, and an export_metrics that directly follows an export_metrics
\* that returned Ok, with no collect_metrics between them, writes no sample
\* line.
C1_ExportClears == [](C1_Cleared) /\ [][C1_SecondExport]_vars

\* an export that returned Ok and wrote samples, so that it had families to clear
C1_Witness == last.op = "export" /\ last.ok /\ HasSampleLine(last.buffer)

\* C2 as stated: every label set with a sample in an exported payload was
\* observed by the most recent collect_metrics before the export.
C2_MostRecentCollect ==
    (last.op = "export" /\ last.ok)
        => \A s \in last.samples : s.labels \in seen[Owner(s.fam)]

\* C2, amended: every label set with a sample in an exported payload was
\* observed by a collect_metrics since the last export_metrics that returned
\* Ok (since construction, if there was none).
C2_SinceLastExport ==
    [][ExportOkStep => \A s \in last'.samples : s.labels \in cycle[Owner(s.fam)]]_vars

\* a payload with samples of two label sets in one family
C2_Witness ==
    /\ last.op = "export" /\ last.ok
    /\ \E s, t \in last.samples : s.fam = t.fam /\ s.labels # t.labels

\* C3 as stated: after an export_metrics whose encoding failed every family
\* is empty.
C3_ClearedOnError == (last.op = "export" /\ ~last.ok) => AllFamiliesEmpty

\* C5 as stated: each metric kind of a subject is bound to at most one
\* family of the registry, a registration of a registered kind having failed.
C5_RegisteredOnce ==
    \A i, j \in DOMAIN registry :
        (registry[i].subject = registry[j].subject /\ registry[i].kind = registry[j].kind)
            => i = j

----------------------------------------------------------------------------
(* Properties of MetricCollection *)

\* the step is a call of update_counter or update_gauge
UpdateStep == last'.op \in {"update_counter", "update_gauge"} /\ last' # last

\* the family map the update of the step looks the metric up in
MapOfStep == IF last'.op = "update_counter" THEN metrics[1].counters ELSE metrics[1].gauges

Registered(metric) ==
    metric \in DOMAIN metrics[1].counters \cup DOMAIN metrics[1].gauges

\* C4: update_counter and update_gauge with a metric that is registered
\* neither as a counter nor as a gauge of the collection leave every family
\* as it was and return normally.
C4_UnregisteredNoOp ==
    [][(UpdateStep /\ ~Registered(last'.arg.metric))
          => (families' = families /\ last'.ok /\ ~last'.panic)]_vars

\* an update with an unregistered metric returned, families holding values
C4_Witness ==
    /\ crate = "collection"
    /\ last.op \in {"update_counter", "update_gauge"}
    /\ ~Registered(last.arg.metric)
    /\ ~AllFamiliesEmpty

\* C7: after update_counter on a metric registered as a counter, or
\* update_gauge on a metric registered as a gauge, the metric's family holds
\* exactly the given value for the labels, whatever it held before, and
\* every other label set and every other family is unchanged.
C7_LastWriteWins ==
    [][(UpdateStep /\ last'.arg.metric \in DOMAIN MapOfStep)
          => LET f == MapOfStep[last'.arg.metric] IN
             /\ last'.arg.labels \in DOMAIN families'[f]
             /\ families'[f][last'.arg.labels] = last'.arg.value
             /\ DOMAIN families'[f] = DOMAIN families[f] \cup {last'.arg.labels}
             /\ \A l \in DOMAIN families[f] \ {last'.arg.labels} :
                    families'[f][l] = families[f][l]
             /\ \A g \in DOMAIN families \ {f} : families'[g] = families[g]
             /\ DOMAIN families' = DOMAIN families]_vars

\* an update stored a value smaller than the one the labels had, next to
\* another label set
C7_Witness ==
    /\ crate = "collection"
    /\ last.op \in {"update_counter", "update_gauge"}
    /\ last.arg.prev # <<>>
    /\ last.arg.value < last.arg.prev[1]
    /\ \E f \in DOMAIN families :
          /\ last.arg.labels \in DOMAIN families[f]
          /\ families[f][last.arg.labels] = last.arg.value
          /\ Cardinality(DOMAIN families[f]) = 2

----------------------------------------------------------------------------
(* Properties of the label sets *)

\* a label set with name="" in a text
HasEmptyName(text) ==
    \E i \in 1..(Len(text) - 3) :
        /\ text[i] = "name" /\ text[i + 1] = "="
        /\ text[i + 2] = "\"" /\ text[i + 3] = "\""

----------------------------------------------------------------------------
(* Properties of deserialize *)

\* the label sets the ebpf registry holds
EbpfLabelSets == UNION {DOMAIN families[f] : f \in DOMAIN families}

ValueIn(f, l) == IF l \in DOMAIN families[f] THEN families[f][l] ELSE 0

Records(result) == {result.records[i] : i \in DOMAIN result.records}

\* C8 as stated: deserialize of the text scrape_metrics wrote for a registry
\* with N label sets yields N records, one per label set, with the label
\* set's id, type and name and its run_time, execution and uptime values.
C8_RoundTrip ==
    (IsEbpf /\ last.op = "scrape" /\ last.ok /\ decoded # NoResult)
        => /\ decoded.kind = "ok"
           /\ Len(decoded.records) = Cardinality(EbpfLabelSets)
           /\ \A l \in EbpfLabelSets :
                \E r \in Records(decoded) :
                    /\ r.id = l.id
                    /\ r.bpf_type = Str(l.program_type)
                    /\ r.name = Str(l.name)
                    /\ r.run_time_ns = ValueIn(RunTimeNs, l)
                    /\ r.run_cnt = ValueIn(RunCnt, l)
                    /\ r.uptime = ValueIn(UptimeFam, l)

EndsWithEOF(text) ==
    Len(text) >= Len(EOFLine)
    /\ SubSeq(text, Len(text) - Len(EOFLine) + 1, Len(text)) = EOFLine

\* RunCount and MemoryLocked registered for programs, program 7 collected,
\* the payload exported and read
C9_Scenario ==
    /\ crate = "bpf"
    /\ Len(metrics) = 1
    /\ metrics[1].subject = "prog"
    /\ DOMAIN metrics[1].counters = {"RunCount"}
    /\ DOMAIN metrics[1].gauges = {"MemoryLocked"}
    /\ last.op = "export" /\ last.ok
    /\ last.buffer \in
          Encode(registry,
                 [f \in DOMAIN families |->
                    Put(EmptyMap, ProgLabels(Prog7),
                        IF f = metrics[1].counters["RunCount"]
                        THEN Prog7.run_cnt ELSE Prog7.memory_locked)])
    /\ decoded # NoResult

FieldOf(sec) ==
    CASE FullName(sec.d) = T_ebpf \o T_run_time_nanoseconds -> "run_time_ns"
      [] FullName(sec.d) = T_ebpf \o T_execution_count -> "run_cnt"
      [] FullName(sec.d) = T_ebpf \o T_time_loaded_nanoseconds -> "uptime"
      [] OTHER -> "none"

\* samples of different sections with the same id agree on program_type
\* and name, and on the value if their sections are stored in the same field
SectionsAgree(secs) ==
    \A i, j \in DOMAIN secs :
        (i # j /\ FieldOf(secs[i]) # "none" /\ FieldOf(secs[j]) # "none")
        => \A a \in DOMAIN secs[i].samples, b \in DOMAIN secs[j].samples :
             LET s == secs[i].samples[a]
                 t == secs[j].samples[b]
             IN  s.labels.id = t.labels.id
                 => /\ s.labels = t.labels
                    /\ FieldOf(secs[i]) = FieldOf(secs[j]) => s.value = t.value

\* a payload was read, its sections were handed over in another order and
\* read again
Reread == crate = "decode" /\ decoded # NoResult /\ orig # NoResult
          /\ last.buffer # orig.buffer

\* C10 as stated: a permutation of the sections of an accepted payload is
\* accepted and decodes to the same records.
C10_AnyOrder ==
    (Reread /\ orig.result.kind = "ok")
        => decoded.kind = "ok" /\ Records(decoded) = Records(orig.result)

\* C10, amended: a permutation of the sections of an accepted payload is
\* accepted, and decodes to the same records if samples of different
\* sections with the same id carry the same program_type and name and, in
\* sections of one metric, the same value.
C10_AgreeingSections ==
    (Reread /\ orig.result.kind = "ok")
        => /\ decoded.kind = "ok"
           /\ SectionsAgree(last.arg) => Records(decoded) = Records(orig.result)

\* two sections that agree, with samples of the same program, read in both orders
C10_Witness ==
    /\ Reread
    /\ orig.result.kind = "ok"
    /\ SectionsAgree(last.arg)
    /\ \E r \in Records(decoded) : r.run_time_ns # 0 /\ r.run_cnt # 0

----------------------------------------------------------------------------
(* deserialize on damaged payloads *)

\* deserialize has returned, or panicked, on the payload of the input
PayloadDone == crate = "payload" /\ decoded # NoResult

\* deserialize returned Err to its caller
ParseError == decoded.kind \in {"error", "incomplete"}

\* C11: deserialize fails with a ParseError returned to its caller for
\* every payload that does not end with the line # EOF: one cut before its
\* end, one with text after the # EOF line, one with text between the last
\* section and the # EOF line.
C11_EofRequired ==
    (PayloadDone /\ last.arg.kind \in {"cut", "after", "before"}) => ParseError

\* C12: a payload in which some section lacks one of its three metadata
\* lines makes deserialize fail with a ParseError; it is never accepted.
C12_MissingMetadata ==
    (PayloadDone /\ last.arg.kind = "lines") => ParseError

\* C13: for every proper prefix of a well-formed payload deserialize
\* reports that more input is needed: it returns Err(Incomplete), and
\* neither a parse error, nor a panic, nor records.
C13_NeedMoreInput ==
    (PayloadDone /\ last.arg.kind = "cut") => decoded.kind = "incomplete"

\* C17: a payload ending in # EOF with a malformed sample line (a label
\* set of another syntax, a value that is no number, no _total suffix)
\* makes deserialize fail with a ParseError.
C17_MalformedSample ==
    (PayloadDone /\ last.arg.kind = "sample") => ParseError

----------------------------------------------------------------------------
(* the records deserialize returns *)

\* the section has a metric name that parse_metric accepts
Recognised(sec) == FieldOf(sec) # "none"

\* where in the payload the samples of program id stored in a field are
PlacesOf(secs, id, field) ==
    {p \in (DOMAIN secs) \X (1..MaxSamples) :
        /\ FieldOf(secs[p[1]]) = field
        /\ p[2] \in DOMAIN secs[p[1]].samples
        /\ secs[p[1]].samples[p[2]].labels.id = id}

\* the value of the last of these samples, 0 if there is none
LastValue(secs, id, field) ==
    IF PlacesOf(secs, id, field) = {} THEN 0
    ELSE LET p == CHOOSE x \in PlacesOf(secs, id, field) :
                    \A y \in PlacesOf(secs, id, field) :
                        y[1] < x[1] \/ (y[1] = x[1] /\ y[2] <= x[2])
         IN  secs[p[1]].samples[p[2]].value

\* the ids of the sample lines of the given sections
IdsIn(secs, which) ==
    UNION {{secs[i].samples[j].labels.id : j \in DOMAIN secs[i].samples} : i \in which}

Increasing(records) ==
    \A i, j \in DOMAIN records : i < j => records[i].id < records[j].id

Decoded == crate = "decode" /\ decoded # NoResult

\* C16 as stated: the records are in strictly increasing order of id, one
\* per distinct id occurring in the sample lines of the payload.
C16_OnePerId ==
    Decoded
        => /\ decoded.kind = "ok"
           /\ Increasing(decoded.records)
           /\ {r.id : r \in Records(decoded)} = IdsIn(last.arg, DOMAIN last.arg)

\* C16, amended: the records are in strictly increasing order of id, one
\* per distinct id occurring in the sample lines that parse_metric accepts
\* (those of the sections named run_time_nanoseconds, execution_count or
\* time_loaded_nanoseconds); each field of a record holds the value of the
\* last sample of its id in the sections of that field, 0 if there is none.
C16_OnePerParsedId ==
    Decoded
        => /\ decoded.kind = "ok"
           /\ Increasing(decoded.records)
           /\ {r.id : r \in Records(decoded)}
                = IdsIn(last.arg, {i \in DOMAIN last.arg : Recognised(last.arg[i])})
           /\ \A r \in Records(decoded) :
                /\ r.run_time_ns = LastValue(last.arg, r.id, "run_time_ns")
                /\ r.run_cnt = LastValue(last.arg, r.id, "run_cnt")
                /\ r.uptime = LastValue(last.arg, r.id, "uptime")

\* two records, one of them merged from the samples of two sections
C16_Witness ==
    /\ Decoded
    /\ Len(decoded.records) = 2
    /\ \E r \in Records(decoded) : r.run_time_ns # 0 /\ r.uptime # 0

\* the payload without the sections of a name parse_metric rejects
RecognisedSections(secs) == SelectSeq(secs, Recognised)

\* C18 as stated: a sample line with a metric name the decoder does not
\* recognise has its value stored in the uptime field of the record of its
\* id.
C18_DefaultField ==
    Decoded
        => \A i \in {k \in DOMAIN last.arg : ~Recognised(last.arg[k])} :
             \A j \in DOMAIN last.arg[i].samples :
                \E r \in Records(decoded) :
                    /\ r.id = last.arg[i].samples[j].labels.id
                    /\ r.uptime \in {s.value : s \in SampleChoices}

\* C18, amended: a sample line with a metric name the decoder does not
\* recognise is not decoded: the payload is read as if the sections of
\* that name were not in it, the other sections decoded as usual.
C18_UnknownIgnored ==
    Decoded => decoded = deserialize(Payload(RecognisedSections(last.arg)))

\* a payload with samples under uptime_nanoseconds and a section that is
\* decoded to a record
C18_Witness ==
    /\ Decoded
    /\ \E i \in DOMAIN last.arg :
          ~Recognised(last.arg[i]) /\ last.arg[i].samples # <<>>
    /\ decoded.kind = "ok"
    /\ \E r \in Records(decoded) : r.run_cnt # 0 /\ r.uptime = 0

----------------------------------------------------------------------------
(* BpfMetrics::collect_metrics: failures and skips *)

CollectDone == crate = "bpf" /\ last.op = "collect"

\* every family of collection i has a sample with each label set that the
\* data source listed for its subject kind
Populated(i) ==
    \A f \in FamiliesOf(metrics[i]) :
        last.arg[metrics[i].subject] \subseteq DOMAIN families[f]

\* C15: in a collect_metrics call in which the collector of one subject
\* kind fails, the collectors of every other registered subject kind have
\* run and their families are populated, whatever the registration order.
C15_OthersRun ==
    CollectDone
        => \A i \in DOMAIN metrics : metrics[i].subject # "link" => Populated(i)

\* the label set of the program of the listings whose load time lies in
\* the future
FutureLabels == ProgLabels([Prog7 EXCEPT !.age = -1])

\* the families of collection i but the one of Uptime
OtherThanUptime(i) ==
    {metrics[i].counters[m] : m \in DOMAIN metrics[i].counters \ {"Uptime"}}
        \cup {metrics[i].gauges[m] : m \in DOMAIN metrics[i].gauges}

\* C19: a collect_metrics call that meets a program loaded in the future
\* returns normally and has written that program's registered metrics
\* other than Uptime.
C19_OtherMetricsWritten ==
    (CollectDone /\ "future" \in last.note)
        => /\ last.ok
           /\ \A i \in 1..last.arg.done :
                metrics[i].subject = "prog"
                    => \A f \in OtherThanUptime(i) : FutureLabels \in DOMAIN families[f]

----------------------------------------------------------------------------
(* OpenMetrics::record_metrics: the counter differences *)

\* C20: no record_metrics call underflows in `reported - stored`, and none
\* panics, also when a reported value is smaller than the stored one.
C20_NoUnderflow ==
    (IsEbpf /\ last.op = "record") => (~last.panic /\ "underflow" \notin last.note)

----------------------------------------------------------------------------
(* concurrent request handlers *)

\* C14: collection and export on a shared BpfMetrics are mutually
\* exclusive: no handler is between the encoding and the clearing of its
\* export_metrics while another is part-way through its collect_metrics,
\* and no export encodes the families while another handler is part-way
\* through its collect_metrics.
C14_MutualExclusion ==
    crate = "handlers"
        => /\ \A g, h \in 1..MaxHandlers :
                g # h => ~(handlers[g].pc = "clear" /\ PartWay(h))
           /\ (last.op = "export" => "partial" \notin last.note)

----------------------------------------------------------------------------
(* deserialize keeps no state *)

----------------------------------------------------------------------------
(* failed elements of a listing *)

\* C22: when the listing of a collector holds failed elements, the
\* collector raises no error (a collect_metrics call panics in the link
\* collector only) and every element that did not fail, has a name and a
\* load time that is not in the future has a sample in each registered
\* family of the collection.
C22_FailedSkipped ==
    (CollectDone /\ "failed" \in last.note)
        => /\ last.panic => /\ last.arg.done < Len(metrics)
                            /\ metrics[last.arg.done + 1].subject = "link"
           /\ \A i \in 1..last.arg.done : Populated(i)

\* a listing with a failed element and an element that was written
C22_Witness ==
    /\ CollectDone
    /\ "failed" \in last.note
    /\ ~last.panic
    /\ \E i \in DOMAIN metrics :
          /\ last.arg[metrics[i].subject] # {}
          /\ FamiliesOf(metrics[i]) # {}
          /\ Populated(i)

----------------------------------------------------------------------------
(* what a handler exports *)

\* C23: the payload a handler exports has, in every registered family, a
\* sample for every label set its own collect_metrics built, under every
\* interleaving of two handlers.
C23_OwnSamples ==
    (crate = "handlers" /\ last.op = "export" /\ last.ok)
        => \A l \in last.arg.own, f \in FamiliesOf(metrics[1]) :
             [fam |-> f, labels |-> l] \in last.samples
====
